---- MODULE Spec2Model ----
(***************************************************************************)
(* Motion-gesture recognition engine of pitch-text-stream                  *)
(* (GestureRecorder component: jitter-zone learning, pattern window,       *)
(* rule engine with hold counters, cooldown / last-gesture lockout).       *)
(*                                                                         *)
(* Units.  Angles are integer degrees, times integer milliseconds.         *)
(* Confidences are counted in units of 1/300, so that peaks/5, rapid/6,    *)
(* 0.7 and 0.95 are all exact (60*peaks, 50*rapid, 210, 285).              *)
(* A velocity is kept as the pair (squared displacement, elapsed ms) it is *)
(* computed from, so that comparisons with it are exact.                   *)
(* A jitter zone is kept as the exact sums it is computed from             *)
(* (n, sum, n*sumsq - sum^2 per axis): centre = sum/n and                  *)
(* radius = max(1.5*sqrt(dev)/n, 5).                                       *)
(*                                                                         *)
(* onOrient discards three callbacks out of four (frame % 4) before it     *)
(* reads anything; those callbacks change only the local frame counter.    *)
(* The action OnOrient is one processed callback.                          *)
(*                                                                         *)
(* The Kalman filters keep their numbers as exact fractions.  The rule     *)
(* predicates read the raw beta and gamma of the sample, not the filtered  *)
(* x, y, z, so the filter is specified on its own (SpecKalman).            *)
(* The Calibration page shares localStorage['gesture-thresholds'] with     *)
(* the recorder; SpecCal runs its load, edit, save and reset handlers.     *)
(*                                                                         *)
(* The gesture badge and its 1000 ms timeouts are followed in every run;   *)
(* the timeout callback itself runs in SpecDisplay.  SpecFigure8 applies   *)
(* detectFigure8 to windows longer than the recorder runs deliver.         *)
(*                                                                         *)
(* useMotionProcessor (SpecHook) is a second recogniser with its own       *)
(* state.  Its base is kept in 1/1000 degree and its smoothed velocity in  *)
(* 1/1000 degree per second, each update rounded toward zero.              *)
(***************************************************************************)
EXTENDS Integers, Sequences, FiniteSets, TLC

(* ==========================  CONFIG  ========================== *)
COOLDOWN_MS == 700
HOLD_PASS_FRAMES == 3
HOLD_SHOT_FRAMES == 3
HOLD_TACKLE_FRAMES == 4
HOLD_VOICE_FRAMES == 6
HOLD_FOUL_FRAMES == 3
HOLD_CORNER_FRAMES == 4
HOLD_OFFSIDE_FRAMES == 4
HOLD_SUB_FRAMES == 5
LEARNING_DURATION_MS == 2000
PATTERN_WINDOW_MS == 2000
PATTERN_MIN_SAMPLES == 8
MIN_LEARNING_SAMPLES == 5
MIN_RADIUS == 5
ACCEPT_CONFIDENCE == 210
CONFIDENCE_CAP == 285
GESTURE_CONFIDENCE == 285
GESTURE_SHOWN_MS == 1000

\* useMotionProcessor CONFIG and the literals of its loop; the two factors are
\* kept as percentages (0.02, 0.15)
IMPULSE_THRESHOLD == 150
SUSTAIN_THRESHOLD == 35
VOICE_THRESHOLD == 120
BASE_RECENTER_SPEED == 2
SMOOTHING_FACTOR == 15
HOOK_COOLDOWN_MS == 800
STEADY_BELOW == 30
FOUL_VELOCITY == 100
MAX_GAP_MS == 1000
SHAKE_VELOCITY == 80
CIRCULAR_MIN_POINTS == 12
FIGURE8_MIN_POINTS == 16
ZIGZAG_MIN_POINTS == 8
SHAKE_MIN_POINTS == 6

(* ==========================  BOUNDS  ========================== *)
\* clock value when the component mounts, and the last instant explored per environment
StartTime == 1000
TiltUntil == 5900
FlickUntil == 5200
RapidUntil == 4500
WiggleUntil == 5250
InvertUntil == 5900
SwayUntil == 3450
HoldUntil == 7300
BurstUntil == 3450
\* angles tried against a learned zone
ProbeLimit == 20
\* Kalman filter runs: measurements within +-MaxAngle, at most MaxUpdates updates
MaxAngle == 10
MaxUpdates == 2
\* updates of kalRef that the recorder's runs follow exactly (the rules never read
\* the filters, and the exact numbers grow with every update)
MaxSmoothed == 1
\* most points the sensor delivers within one pattern window
MaxHist == 9
MaxWindow == 25
MaxReadings == 4
FrameMs == 70
\* most samples collected by one learning phase
MaxSamples == 8

(* ==========================  HELPERS  ========================== *)
Null == <<>>
Some(v) == <<v>>
IsNull(o) == o = <<>>
Val(o) == o[1]

Abs(x) == IF x < 0 THEN -x ELSE x

Larger(a, b) == IF a < b THEN b ELSE a

Min(a, b) == IF a < b THEN a ELSE b
\* e.beta ?? 0
Nullish(o) == IF IsNull(o) THEN 0 ELSE Val(o)

RECURSIVE SumOver(_, _)
SumOver(s, f) == IF s = <<>> THEN 0 ELSE s[1][f] + SumOver(Tail(s), f)

RECURSIVE SumSqOver(_, _)
SumSqOver(s, f) == IF s = <<>> THEN 0 ELSE s[1][f] * s[1][f] + SumSqOver(Tail(s), f)

(* ==========================  KALMAN 1-D  ========================== *)
\* numbers of the filter, kept exact as fractions in lowest terms
RECURSIVE GCD(_, _)
GCD(a, b) == IF b = 0 THEN a ELSE GCD(b, a % b)

Frac(n, d) == LET g == GCD(Abs(n), d) IN [ num |-> n \div g, den |-> d \div g ]

Whole(n) == [ num |-> n, den |-> 1 ]

Plus(a, b) ==
  LET g == GCD(a.den, b.den)
  IN Frac(a.num * (b.den \div g) + b.num * (a.den \div g), (a.den \div g) * b.den)

Minus(a, b) == Plus(a, [ b EXCEPT !.num = -b.num ])

Times(a, b) ==
  LET c == Frac(a.num, b.den)
      d == Frac(b.num, a.den)
  IN [ num |-> c.num * d.num, den |-> c.den * d.den ]

\* a / b for b > 0
Over(a, b) == Times(a, [ num |-> b.den, den |-> b.num ])

Leq(a, b) ==
  LET g == GCD(a.den, b.den)
  IN a.num * (b.den \div g) <= b.num * (a.den \div g)

\* new Kalman1D(): q = 0.003, r = 0.25, p = 0, x = 0, k = 0
Kalman1D == [ q |-> Frac(3, 1000), r |-> Frac(25, 100), p |-> Whole(0), x |-> Whole(0),
              k |-> Whole(0) ]

\* update(m): the filter afterwards; its x is the value returned
update(f, m) ==
  LET p == Plus(f.p, f.q)
      k == Over(p, Plus(p, f.r))
  IN [ f EXCEPT !.p = Times(p, Minus(Whole(1), k)),
                !.k = k,
                !.x = Plus(f.x, Times(k, Minus(m, f.x))) ]

(* ==========================  GESTURE DECISION  ========================== *)
DEFAULT_THRESHOLDS ==
  [ PASS_MIN |-> 40, PASS_MAX |-> 85, PASS_ENABLED |-> TRUE,
    SHOT_MIN |-> 25, SHOT_ENABLED |-> TRUE,
    TACKLE_MIN |-> 40, TACKLE_ENABLED |-> TRUE,
    VOICE_TAG_THRESHOLD |-> 110, VOICE_TAG_ENABLED |-> TRUE,
    FOUL_GAMMA_MIN |-> 55, FOUL_BETA_MIN |-> 25, FOUL_ENABLED |-> TRUE,
    CORNER_MIN |-> 15, CORNER_MAX |-> 40, CORNER_ENABLED |-> TRUE,
    OFFSIDE_MIN |-> 15, OFFSIDE_MAX |-> 40, OFFSIDE_ENABLED |-> TRUE,
    SUBSTITUTION_ENABLED |-> TRUE,
    CIRCULAR_ENABLED |-> TRUE, FIGURE_8_ENABLED |-> TRUE,
    ZIGZAG_ENABLED |-> TRUE, SHAKE_ENABLED |-> TRUE ]

\* Object.entries(RULES): the rules in declaration order
RuleNames ==
  << "PASS", "SHOT", "TACKLE", "VOICE_TAG", "FOUL", "CORNER", "OFFSIDE", "SUBSTITUTION" >>

RuleSet == { RuleNames[i] : i \in 1..Len(RuleNames) }

PatternNames == << "CIRCULAR", "FIGURE_8", "ZIGZAG", "SHAKE" >>

PatternSet == { PatternNames[i] : i \in 1..Len(PatternNames) }

\* name + '_ENABLED'
EnabledKey(name) ==
  CASE name = "PASS" -> "PASS_ENABLED"
    [] name = "SHOT" -> "SHOT_ENABLED"
    [] name = "TACKLE" -> "TACKLE_ENABLED"
    [] name = "VOICE_TAG" -> "VOICE_TAG_ENABLED"
    [] name = "FOUL" -> "FOUL_ENABLED"
    [] name = "CORNER" -> "CORNER_ENABLED"
    [] name = "OFFSIDE" -> "OFFSIDE_ENABLED"
    [] name = "SUBSTITUTION" -> "SUBSTITUTION_ENABLED"
    [] name = "CIRCULAR" -> "CIRCULAR_ENABLED"
    [] name = "FIGURE_8" -> "FIGURE_8_ENABLED"
    [] name = "ZIGZAG" -> "ZIGZAG_ENABLED"
    [] name = "SHAKE" -> "SHAKE_ENABLED"

\* RULES[name](s, b, t): s and b carry the raw beta and gamma of their frame
RULES(name, s, b, t) ==
  CASE name = "PASS" ->
         /\ s.beta > b.beta + t.PASS_MIN
         /\ s.beta < b.beta + t.PASS_MAX
         /\ Abs(s.gamma - b.gamma) < 25
    [] name = "SHOT" ->
         /\ s.beta < b.beta - t.SHOT_MIN
         /\ Abs(s.gamma - b.gamma) < 25
    [] name = "TACKLE" ->
         /\ Abs(s.gamma - b.gamma) > t.TACKLE_MIN
         /\ Abs(s.beta - b.beta) < 25
    [] name = "VOICE_TAG" ->
         \/ s.beta < -t.VOICE_TAG_THRESHOLD
         \/ s.beta > t.VOICE_TAG_THRESHOLD
    [] name = "FOUL" ->
         /\ Abs(s.gamma - b.gamma) > t.FOUL_GAMMA_MIN
         /\ Abs(s.beta - b.beta) > t.FOUL_BETA_MIN
    [] name = "CORNER" ->
         /\ s.gamma > b.gamma + t.CORNER_MIN
         /\ s.gamma < b.gamma + t.CORNER_MAX
         /\ Abs(s.beta - b.beta) < 12
    [] name = "OFFSIDE" ->
         /\ s.gamma < b.gamma - t.OFFSIDE_MIN
         /\ s.gamma > b.gamma - t.OFFSIDE_MAX
         /\ Abs(s.beta - b.beta) < 12
    [] name = "SUBSTITUTION" ->
         /\ Abs(s.beta - b.beta) < 10
         /\ Abs(s.gamma - b.gamma) < 10

FRAMES_NEEDED ==
  [ PASS |-> HOLD_PASS_FRAMES, SHOT |-> HOLD_SHOT_FRAMES,
    TACKLE |-> HOLD_TACKLE_FRAMES, VOICE_TAG |-> HOLD_VOICE_FRAMES,
    FOUL |-> HOLD_FOUL_FRAMES, CORNER |-> HOLD_CORNER_FRAMES,
    OFFSIDE |-> HOLD_OFFSIDE_FRAMES, SUBSTITUTION |-> HOLD_SUB_FRAMES ]

\* cntRef.current = {}: every (cnt[name] || 0) reads 0
NoCounts == [ name \in RuleSet |-> 0 ]

(* ==========================  PATTERN DETECTION HELPERS  ========================== *)
\* velocity of the first point of a window: the literal 0
ZeroVelocity == [ d2 |-> 0, ms |-> 1000 ]

\* sqrt(dBeta^2 + dGamma^2) / ((now - prevPoint.ts) / 1000), kept as (d2, ms)
VelocityFrom(prevPoint, beta, gamma, t) ==
  [ d2 |-> (beta - prevPoint.beta) * (beta - prevPoint.beta)
           + (gamma - prevPoint.gamma) * (gamma - prevPoint.gamma),
    ms |-> t - prevPoint.ts ]

\* v > limit in IEEE arithmetic: x/0 is +Infinity for x > 0, 0/0 is NaN (never greater).
\* Otherwise d2 * 1000^2 > limit^2 * ms^2, both sides divided by 40^2 (limit is a
\* multiple of 40) to stay within 32-bit integers.
VelocityAbove(v, limit) ==
  IF v.ms = 0 THEN v.d2 > 0
  ELSE IF v.ms < 0 THEN FALSE
  ELSE v.d2 * 25 * 25 > (limit \div 40) * (limit \div 40) * v.ms * v.ms

NotDetected == [ detected |-> FALSE, confidence |-> 0 ]

\* every result the path computation can give, whatever the length
CircularUnguarded(points) ==
  { NotDetected } \cup { [ detected |-> TRUE, confidence |-> c ] : c \in 91..CONFIDENCE_CAP }

\* The set of results detectCircularMotion can return for a window.  Below 12
\* points the length guard decides.  From 12 points on the result depends on
\* square roots and arctangents of the path; every result the code can
\* compute is in the set (detected needs consistency > 0.6 and coverage > 0.5,
\* so its confidence lies above 0.3 and is capped at 0.95).
detectCircularMotion(points) ==
  IF Len(points) < CIRCULAR_MIN_POINTS THEN { NotDetected }
  ELSE { NotDetected } \cup
       { [ detected |-> TRUE, confidence |-> c ] : c \in 91..CONFIDENCE_CAP }

\* offset = |mean beta of first half - mean beta of second half| > 10
HalvesApart(first, second) ==
  Abs(SumOver(first, "beta") * Len(second) - SumOver(second, "beta") * Len(first))
    > 10 * Len(first) * Len(second)

detectFigure8(points) ==
  IF Len(points) < FIGURE8_MIN_POINTS THEN { NotDetected }
  ELSE LET mid == Len(points) \div 2
           first == SubSeq(points, 1, mid)
           second == SubSeq(points, mid + 1, Len(points))
           apart == HalvesApart(first, second)
       IN { IF firstCircle.detected /\ secondCircle.detected /\ apart
            THEN [ detected |-> TRUE,
                   confidence |-> Min((firstCircle.confidence + secondCircle.confidence) \div 2,
                                      CONFIDENCE_CAP) ]
            ELSE NotDetected
            : firstCircle \in (IF apart THEN detectCircularMotion(first) ELSE { NotDetected }),
              secondCircle \in (IF apart THEN detectCircularMotion(second) ELSE { NotDetected }) }

PeaksOverBeta(points) ==
  Cardinality({ i \in 2..(Len(points) - 1) :
      \/ points[i].beta > points[i-1].beta /\ points[i].beta > points[i+1].beta
      \/ points[i].beta < points[i-1].beta /\ points[i].beta < points[i+1].beta })

\* local extrema of the gamma series, three-point comparison
Peaks(points) ==
  Cardinality({ i \in 2..(Len(points) - 1) :
      \/ points[i].gamma > points[i-1].gamma /\ points[i].gamma > points[i+1].gamma
      \/ points[i].gamma < points[i-1].gamma /\ points[i].gamma < points[i+1].gamma })

detectZigzag(points) ==
  IF Len(points) < ZIGZAG_MIN_POINTS THEN NotDetected
  ELSE LET peaks == Peaks(points)
       IN IF peaks >= 3
          THEN [ detected |-> TRUE, confidence |-> Min(60 * peaks, CONFIDENCE_CAP) ]
          ELSE NotDetected

RapidChanges(points) ==
  Cardinality({ i \in 1..Len(points) : VelocityAbove(points[i].velocity, SHAKE_VELOCITY) })

detectShake(points) ==
  IF Len(points) < SHAKE_MIN_POINTS THEN NotDetected
  ELSE LET rapidChanges == RapidChanges(points)
       IN IF rapidChanges >= 4
          THEN [ detected |-> TRUE, confidence |-> Min(50 * rapidChanges, CONFIDENCE_CAP) ]
          ELSE NotDetected

\* [...currentHistory, newPoint].filter(p => now - p.ts < PATTERN_WINDOW_MS)
InWindowInclusive(p, t) == t - p.ts <= PATTERN_WINDOW_MS

InWindow(p, t) == t - p.ts < PATTERN_WINDOW_MS

UpdatedHistory(currentHistory, newPoint, t) ==
  SelectSeq(Append(currentHistory, newPoint), LAMBDA p : InWindow(p, t))

NoBest == [ name |-> "", detected |-> FALSE, confidence |-> 0, enabled |-> FALSE ]

\* patterns.filter(p => p.enabled).reduce((max, p) => p.confidence > max.confidence ? p : max, ...)
RECURSIVE BestFrom(_, _, _)
BestFrom(patterns, i, max) ==
  IF i > Len(patterns) THEN max
  ELSE IF patterns[i].enabled /\ patterns[i].confidence > max.confidence
       THEN BestFrom(patterns, i + 1, patterns[i])
       ELSE BestFrom(patterns, i + 1, max)

Patterns(circular, figure8, zigzag, shake, t) ==
  << [ name |-> "CIRCULAR", detected |-> circular.detected,
       confidence |-> circular.confidence, enabled |-> t.CIRCULAR_ENABLED ],
     [ name |-> "FIGURE_8", detected |-> figure8.detected,
       confidence |-> figure8.confidence, enabled |-> t.FIGURE_8_ENABLED ],
     [ name |-> "ZIGZAG", detected |-> zigzag.detected,
       confidence |-> zigzag.confidence, enabled |-> t.ZIGZAG_ENABLED ],
     [ name |-> "SHAKE", detected |-> shake.detected,
       confidence |-> shake.confidence, enabled |-> t.SHAKE_ENABLED ] >>

\* best.detected && best.confidence > 0.7 && now > cooldownRef.current
PatternAccepted(best, t, cooldownDeadline) ==
  best.detected /\ best.confidence > ACCEPT_CONFIDENCE /\ t > cooldownDeadline

(* ==========================  JITTER ZONE  ========================== *)
\* finishLearning: the zone computed from the samples, or nothing below 5 samples
\* a zone whose spread is taken about 0 instead of about the centre
ZoneAboutZero(samples) ==
  LET n == Len(samples)
  IN [ n |-> n, sumBeta |-> SumOver(samples, "beta"), sumGamma |-> SumOver(samples, "gamma"),
       devBeta |-> n * SumSqOver(samples, "beta"),
       devGamma |-> n * SumSqOver(samples, "gamma") ]

LearnedZone(samples) ==
  LET n == Len(samples)
      sumBeta == SumOver(samples, "beta")
      sumGamma == SumOver(samples, "gamma")
  IN [ n |-> n, sumBeta |-> sumBeta, sumGamma |-> sumGamma,
       devBeta |-> n * SumSqOver(samples, "beta") - sumBeta * sumBeta,
       devGamma |-> n * SumSqOver(samples, "gamma") - sumGamma * sumGamma ]

\* |v - sum/n| > max(1.5 * sqrt(dev)/n, 5)
BeyondRadius(v, n, sum, dev) ==
  LET a == Abs(v * n - sum)
  IN a > MIN_RADIUS * n /\ 4 * a * a > 9 * dev

\* a gate that drops every frame until a zone is learned
ClosedGate(zone, beta, gamma) ==
  /\ ~IsNull(zone)
  /\ \/ BeyondRadius(beta, Val(zone).n, Val(zone).sumBeta, Val(zone).devBeta)
     \/ BeyondRadius(gamma, Val(zone).n, Val(zone).sumGamma, Val(zone).devGamma)

isOutsideJitterZone(zone, beta, gamma) ==
  IF IsNull(zone) THEN TRUE
  ELSE \/ BeyondRadius(beta, Val(zone).n, Val(zone).sumBeta, Val(zone).devBeta)
       \/ BeyondRadius(gamma, Val(zone).n, Val(zone).sumGamma, Val(zone).devGamma)

(* ==========================  RULE ENGINE  ========================== *)
\* if (now < cooldownRef.current) return
NeverInCooldown(t, cooldownDeadline) == FALSE

InCooldown(t, cooldownDeadline) == t < cooldownDeadline

\* const isEnabled = t[`${name}_ENABLED`]
AlwaysEnabled(name, t) == TRUE

isEnabled(name, t) == t[EnabledKey(name)]

\* a loop that goes on after a rule has reached its count: the last one wins
RECURSIVE LoopOn(_, _, _, _, _, _)
LoopOn(i, cnt, sample, base, t, winner) ==
  IF i > Len(RuleNames) THEN [ cnt |-> cnt, winner |-> winner ]
  ELSE LET name == RuleNames[i]
       IN IF isEnabled(name, t) /\ RULES(name, sample, base, t)
          THEN LET counted == [ cnt EXCEPT ![name] = @ + 1 ]
               IN LoopOn(i + 1, counted, sample, base, t,
                         IF counted[name] >= FRAMES_NEEDED[name] THEN name ELSE winner)
          ELSE LoopOn(i + 1, [ cnt EXCEPT ![name] = 0 ], sample, base, t, winner)

RuleLoopWithoutBreak(i, cnt, sample, base, t) == LoopOn(i, cnt, sample, base, t, "")

\* the for-loop over Object.entries(RULES): counters after the loop and the winner
RECURSIVE RuleLoop(_, _, _, _, _)
RuleLoop(i, cnt, sample, base, t) ==
  IF i > Len(RuleNames) THEN [ cnt |-> cnt, winner |-> "" ]
  ELSE LET name == RuleNames[i]
       IN IF isEnabled(name, t) /\ RULES(name, sample, base, t)
          THEN LET counted == [ cnt EXCEPT ![name] = @ + 1 ]
               IN IF counted[name] >= FRAMES_NEEDED[name]
                  THEN [ cnt |-> counted, winner |-> name ]
                  ELSE RuleLoop(i + 1, counted, sample, base, t)
          ELSE RuleLoop(i + 1, [ cnt EXCEPT ![name] = 0 ], sample, base, t)

\* if (!winner || winner === lastGestureRef.current) return
\* if (!winner || winner === lastGestureRef.current) return;
FiresWhenReached(winner, lastGesture) == winner # ""

Fires(winner, lastGesture) == winner # "" /\ winner # lastGesture

(* ==========================  THRESHOLD STORE  ========================== *)
\* { ...DEFAULT_THRESHOLDS, ...loadedThresholds }
LoadedOnly(defaults, loaded) == loaded

Merge(defaults, loaded) ==
  [ k \in (DOMAIN defaults) \cup (DOMAIN loaded) |->
      IF k \in DOMAIN loaded THEN loaded[k] ELSE defaults[k] ]

\* the load effect: getItem, JSON.parse inside try/catch, merge over the defaults
LoadedThresholds(saved) ==
  IF IsNull(saved) THEN DEFAULT_THRESHOLDS
  ELSE IF ~Val(saved).parses THEN DEFAULT_THRESHOLDS
  ELSE Merge(DEFAULT_THRESHOLDS, Val(saved).obj)

(* ==========================  STATE  ========================== *)
VARIABLES
  now,                 \* Date.now() as last read
  env,                 \* what the device and the user deliver in this run
  storage,             \* localStorage['gesture-thresholds']
  mounted,
  thresholds,
  permission,
  isActive,
  isLearning,
  learningProgress,    \* in 1/LEARNING_DURATION_MS
  jitterZone,
  patternHistoryRef,
  baseRef,
  cntRef,
  lastGestureRef,
  cooldownRef,
  learningSamplesRef,
  learningStartRef,
  events,              \* newest first
  voice,
  accepted,            \* every acceptance so far, oldest first (observer)
  last,                \* what the last processed callback did (observer)
  zoneAtStart,         \* the zone held when the running learning phase was started (observer)
  run,                 \* per rule: processed frames in a row whose sample matched it (observer)
  streak,              \* per rule: progress of a fresh run of matching frames (observer)
  seg,                 \* the run of equal non-learning frames being delivered (observer)
  swing,               \* the alternation between -30 and +30 being delivered (observer)
  calibration,         \* the Calibration page: whether it is open, and its thresholds state
  surface,             \* last operation on the stored thresholds and what it saw (observer)
  kalRef,              \* a Kalman3D: the filters x, y, z
  fed,                 \* what kalRef was fed, and kalRef before its last update (observer)
  currentGesture,      \* the gesture badge: useState<string | null>(null)
  gestureTimers,       \* due times of the pending setTimeout(() => setCurrentGesture(null), 1000)
  hook,                \* useMotionProcessor: isActive, permission, sensor, base, velocity, cooldown
  emitted,             \* every onEvent(type, confidence) call so far, oldest first (observer)
  tick                 \* what the last iteration of the hook's loop saw and did (observer)

component ==
  << mounted, thresholds, permission, isActive, isLearning, learningProgress, jitterZone,
     events, voice >>

refs ==
  << patternHistoryRef, baseRef, cntRef, lastGestureRef, cooldownRef,
     learningSamplesRef, learningStartRef >>

observers == << accepted, last, zoneAtStart, run, streak, seg, swing >>

page == << calibration, surface >>

smoothing == << kalRef, fed >>

display == << currentGesture, gestureTimers >>

motion == << hook, emitted, tick >>

vars ==
  << now, env, storage, component, refs, observers, page, smoothing, display, motion >>

Idle ==
  [ branch |-> "none", ran |-> FALSE, window |-> <<>>, best |-> NoBest,
    winner |-> "", reach |-> "", blocked |-> FALSE, fired |-> "", source |-> "",
    confidence |-> 0, samples |-> 0, t |-> 0, evicted |-> 0,
    smoothed |-> FALSE, sample |-> Null,
    after |-> "", then |-> "", hadBase |-> FALSE, cntBefore |-> NoCounts ]

\* the Calibration page while not rendered; useState(DEFAULT_THRESHOLDS) on each mount
Closed == [ open |-> FALSE, thresholds |-> DEFAULT_THRESHOLDS ]

NoSurface == [ op |-> "none", by |-> "", saved |-> Null, removed |-> FALSE, loaded |-> Null ]

Kalman3D == [ x |-> Kalman1D, y |-> Kalman1D, z |-> Kalman1D ]

NotFed == [ beta |-> 0, gamma |-> 0, n |-> 0, before |-> Kalman3D ]

\* filters updated more often than the run follows: their numbers are not kept
Unfollowed == << >>

Lost == [ beta |-> 0, gamma |-> 0, n |-> MaxSmoothed + 1, before |-> Unfollowed ]

NoSeg == [ beta |-> 0, gamma |-> 0, n |-> 0, afterRest |-> FALSE, fired |-> <<>> ]

NoSwing == [ axis |-> "", value |-> 0, n |-> 0, since |-> 0, zigzags |-> <<>>, others |-> 0 ]

\* useMotionProcessor after its first render.  sensor holds whole degrees; base is
\* kept in 1/1000 degree and velocity in 1/1000 degree per second
Unused ==
  [ isActive |-> FALSE, permission |-> FALSE,
    sensor |-> [ beta |-> 0, gamma |-> 0, lastTs |-> 0 ],
    base |-> [ beta |-> 0, gamma |-> 0 ],
    velocity |-> [ beta |-> 0, gamma |-> 0 ],
    cooldown |-> 0 ]

NoTick ==
  [ readings |-> 0, ran |-> FALSE, t |-> 0, open |-> FALSE, beta |-> 0, gamma |-> 0,
    devBeta |-> 0, devGamma |-> 0, velocity |-> [ beta |-> 0, gamma |-> 0 ],
    isSteady |-> TRUE, adapted |-> [ beta |-> 0, gamma |-> 0 ],
    wanted |-> "", type |-> "", conf |-> 0, after |-> Unused ]

InitWith(profiles, stores) ==
  /\ now = StartTime
  /\ env \in profiles
  /\ storage \in stores
  /\ mounted = FALSE
  /\ thresholds = DEFAULT_THRESHOLDS
  /\ permission = FALSE
  /\ isActive = FALSE
  /\ isLearning = FALSE
  /\ learningProgress = 0
  /\ jitterZone = Null
  /\ patternHistoryRef = <<>>
  /\ baseRef = Null
  /\ cntRef = NoCounts
  /\ lastGestureRef = ""
  /\ cooldownRef = 0
  /\ learningSamplesRef = <<>>
  /\ learningStartRef = 0
  /\ events = <<>>
  /\ voice = FALSE
  /\ accepted = <<>>
  /\ last = Idle
  /\ zoneAtStart = Null
  /\ run = NoCounts
  /\ streak = NoCounts
  /\ seg = NoSeg
  /\ swing = NoSwing
  /\ calibration = Closed
  /\ surface = NoSurface
  /\ kalRef = Kalman3D
  /\ fed = NotFed
  /\ currentGesture = Null
  /\ gestureTimers = << >>
  /\ hook = Unused
  /\ emitted = << >>
  /\ tick = NoTick

(* ==========================  COMPONENT  ========================== *)
\* first render: the load effect
Mount ==
  /\ ~mounted
  /\ mounted' = TRUE
  /\ thresholds' = LoadedThresholds(storage)
  /\ surface' = [ surface EXCEPT !.op = "load", !.by = "recorder",
                                  !.loaded = Some(LoadedThresholds(storage)) ]
  /\ UNCHANGED << now, env, storage, permission, isActive, isLearning, learningProgress,
                  jitterZone, events, voice, refs, observers, calibration, smoothing, display, motion >>

\* ask(): requestPermission() resolves granted or not
Ask ==
  /\ mounted
  /\ ~permission
  /\ \E granted \in BOOLEAN : permission' = granted
  /\ UNCHANGED << now, env, storage, mounted, thresholds, isActive, isLearning,
                  learningProgress, jitterZone, events, voice, refs, observers, page, motion, smoothing, display >>

\* what startLearning sets the zone to
KeepZone(zone) == zone

ZoneOnStart(zone) == Null

startLearning(t) ==
  /\ isLearning' = TRUE
  /\ learningProgress' = 0
  /\ learningSamplesRef' = <<>>
  /\ learningStartRef' = t
  /\ jitterZone' = ZoneOnStart(jitterZone)
  /\ zoneAtStart' = jitterZone

\* toggle(), with the effect that starts learning when the loop becomes active
Toggle ==
  /\ mounted
  /\ permission
  /\ \E dt \in env.clicks :
       /\ now + dt <= env.until
       /\ now' = now + dt
       /\ isActive' = ~isActive
       /\ IF ~isActive
          THEN /\ startLearning(now + dt)
               /\ last' = [ last EXCEPT
                             !.then = IF last.then = "off" THEN "reactivated" ELSE "activated" ]
          ELSE /\ UNCHANGED << isLearning, learningProgress, learningSamplesRef,
                               learningStartRef, jitterZone, zoneAtStart >>
               /\ last' = [ last EXCEPT !.then = "off" ]
  /\ UNCHANGED << env, storage, mounted, thresholds, permission, events, voice,
                  patternHistoryRef, baseRef, cntRef, lastGestureRef, cooldownRef,
                  accepted, run, streak, seg, swing, page, motion, smoothing, display >>

\* the "Re-learn Jitter Zone" button, rendered while jitterZone && !isLearning
Recalibrate ==
  /\ mounted
  /\ ~IsNull(jitterZone)
  /\ ~isLearning
  /\ \E dt \in env.clicks :
       /\ now + dt <= env.until
       /\ now' = now + dt
       /\ startLearning(now + dt)
  /\ last' = [ last EXCEPT !.then = "recalibrate" ]
  /\ UNCHANGED << env, storage, mounted, thresholds, permission, isActive, events, voice,
                  patternHistoryRef, baseRef, cntRef, lastGestureRef, cooldownRef,
                  accepted, run, streak, seg, swing, page, motion, smoothing, display >>

\* addEvent: setEvents((e) => [ev, ...e])
addEvent(type, category, patternData, confidence, t) ==
  << [ eventSource |-> IF category = "PATTERN" THEN "pattern-capture" ELSE "gesture-capture",
       type |-> type,
       gestureType |-> IF category = "GESTURE" THEN "MOTION" ELSE "PATTERN",
       timestamp |-> t,
       confidence |-> confidence,
       patternData |-> patternData ] >> \o events

\* finishLearning
finishLearning(samples) ==
  /\ isLearning' = FALSE
  /\ IF Len(samples) < MIN_LEARNING_SAMPLES
     THEN UNCHANGED jitterZone
     ELSE jitterZone' = Some(LearnedZone(samples))

\* onOrient, LEARNING PHASE
LearningPhase(beta, gamma, t) ==
  LET elapsed == t - learningStartRef
      progress == Min(elapsed, LEARNING_DURATION_MS)
      samples == Append(learningSamplesRef, [ beta |-> beta, gamma |-> gamma ])
  IN /\ Len(samples) <= MaxSamples
     /\ learningProgress' = progress
     /\ learningSamplesRef' = samples
     /\ IF progress >= LEARNING_DURATION_MS
        THEN finishLearning(samples)
        ELSE UNCHANGED << isLearning, jitterZone >>
     /\ last' = [ Idle EXCEPT !.branch = "learning", !.samples = Len(samples),
                               !.after = last.then, !.hadBase = ~IsNull(baseRef),
                               !.cntBefore = cntRef ]
     /\ UNCHANGED << events, voice, patternHistoryRef, baseRef, cntRef, lastGestureRef,
                     cooldownRef, learningStartRef, accepted, smoothing, display >>

\* onOrient, inside the jitter zone
InsideJitter ==
  /\ cntRef' = NoCounts
  /\ last' = [ Idle EXCEPT !.branch = "jitter", !.after = last.then,
                            !.hadBase = ~IsNull(baseRef), !.cntBefore = cntRef ]
  /\ UNCHANGED << isLearning, learningProgress, jitterZone, events, voice,
                  patternHistoryRef, baseRef, lastGestureRef, cooldownRef,
                  learningSamplesRef, learningStartRef, accepted, smoothing, display >>

\* conflict lockout: cooldownRef and lastGestureRef after winner fired at t
NoLockout(t, winner, cooldownDeadline, lastGesture) ==
  [ cooldown |-> cooldownDeadline, lastGesture |-> lastGesture ]

Lockout(t, winner, cooldownDeadline, lastGesture) ==
  [ cooldown |-> t + COOLDOWN_MS, lastGesture |-> winner ]

\* patternHistoryRef.current after a pattern was found
KeptHistory(updatedHistory) == updatedHistory

ClearedHistory(updatedHistory) == << >>

\* Kalman smooth: kalRef after k.x.update(beta), k.y.update(gamma), k.z.update(0)
Smoothed(beta, gamma) ==
  IF fed.n < MaxSmoothed
  THEN [ x |-> update(kalRef.x, Whole(beta)),
         y |-> update(kalRef.y, Whole(gamma)),
         z |-> update(kalRef.z, Whole(0)) ]
  ELSE Unfollowed

\* const sample: GestureSample = { x, y, z, beta, gamma, alpha, ts }
GestureSample(k, beta, gamma, t) ==
  IF k = Unfollowed
  THEN [ x |-> Unfollowed, y |-> Unfollowed, z |-> Unfollowed,
         beta |-> beta, gamma |-> gamma, ts |-> t ]
  ELSE [ x |-> k.x.x, y |-> k.y.x, z |-> k.z.x, beta |-> beta, gamma |-> gamma, ts |-> t ]

\* onOrient from "Add to pattern history" on
Detection(beta, gamma, t) ==
  LET currentHistory == patternHistoryRef
      velocity == IF currentHistory = <<>> THEN ZeroVelocity
                  ELSE VelocityFrom(currentHistory[Len(currentHistory)], beta, gamma, t)
      newPoint == [ beta |-> beta, gamma |-> gamma, ts |-> t, velocity |-> velocity ]
      updatedHistory == UpdatedHistory(currentHistory, newPoint, t)
      ran == Len(updatedHistory) >= PATTERN_MIN_SAMPLES
  IN
  /\ Len(updatedHistory) <= MaxHist
  /\ \E circular \in (IF ran THEN detectCircularMotion(updatedHistory) ELSE { NotDetected }),
        figure8 \in (IF ran THEN detectFigure8(updatedHistory) ELSE { NotDetected }) :
       LET zigzag == detectZigzag(updatedHistory)
           shake == detectShake(updatedHistory)
           best == IF ran
                   THEN BestFrom(Patterns(circular, figure8, zigzag, shake, thresholds), 1, NoBest)
                   ELSE NoBest
           k == Smoothed(beta, gamma)
           sample == GestureSample(k, beta, gamma, t)
           base == IF IsNull(baseRef) THEN sample ELSE Val(baseRef)
           loop == RuleLoop(1, cntRef, sample, base, thresholds)
           winner == loop.winner
           seen == [ Idle EXCEPT !.ran = ran, !.best = best, !.reach = winner,
                                 !.blocked = InCooldown(t, cooldownRef), !.t = t,
                                 !.after = last.then, !.hadBase = ~IsNull(baseRef),
                                 !.cntBefore = cntRef,
                                 !.evicted = Len(currentHistory) + 1 - Len(updatedHistory),
                                 !.window = IF ran THEN updatedHistory ELSE <<>> ]
       IN
       IF ran /\ PatternAccepted(best, t, cooldownRef)
       THEN \* pattern found: event, clear history, cooldown, return
         /\ events' = addEvent(best.name, "PATTERN",
                               Some([ velocity |-> updatedHistory[Len(updatedHistory)].velocity,
                                      duration |-> t - updatedHistory[1].ts,
                                      samples |-> Len(updatedHistory) ]),
                               best.confidence, t)
         /\ patternHistoryRef' = ClearedHistory(updatedHistory)
         /\ cooldownRef' = t + COOLDOWN_MS
         /\ accepted' = Append(accepted, [ kind |-> best.name, source |-> "PATTERN", ts |-> t ])
         /\ last' = [ seen EXCEPT !.branch = "pattern", !.fired = best.name,
                                  !.source = "PATTERN", !.confidence = best.confidence ]
         /\ UNCHANGED << voice, baseRef, cntRef, lastGestureRef, smoothing, display >>
       ELSE
         /\ patternHistoryRef' = updatedHistory
         /\ kalRef' = k
         /\ fed' = IF k = Unfollowed THEN Lost
                   ELSE [ beta |-> beta, gamma |-> gamma, n |-> fed.n + 1, before |-> kalRef ]
         /\ baseRef' = Some(base)
         /\ IF InCooldown(t, cooldownRef)
            THEN
              /\ last' = [ seen EXCEPT !.branch = "cooldown", !.smoothed = TRUE,
                                       !.sample = Some(sample) ]
              /\ UNCHANGED << events, voice, cntRef, lastGestureRef, cooldownRef, accepted,
                              display >>
            ELSE
              LET lock == Lockout(t, winner, cooldownRef, lastGestureRef)
              IN
              /\ cntRef' = loop.cnt
              /\ IF Fires(winner, lastGestureRef)
                 THEN
                   /\ cooldownRef' = lock.cooldown
                   /\ lastGestureRef' = lock.lastGesture
                   /\ currentGesture' = Some(winner)
                   /\ gestureTimers' = Append(gestureTimers, t + GESTURE_SHOWN_MS)
                   /\ IF winner = "VOICE_TAG"
                      THEN voice' = TRUE /\ UNCHANGED events
                      ELSE /\ voice' = FALSE
                           /\ events' = addEvent(winner, "GESTURE", Null, GESTURE_CONFIDENCE, t)
                   /\ accepted' = Append(accepted,
                                         [ kind |-> winner, source |-> "GESTURE", ts |-> t ])
                   /\ last' = [ seen EXCEPT !.branch = "rules", !.winner = winner,
                                            !.fired = winner, !.source = "GESTURE",
                                            !.confidence = GESTURE_CONFIDENCE,
                                            !.smoothed = TRUE, !.sample = Some(sample) ]
                 ELSE
                   /\ last' = [ seen EXCEPT !.branch = "rules", !.winner = winner,
                                            !.smoothed = TRUE, !.sample = Some(sample) ]
                   /\ UNCHANGED << events, voice, lastGestureRef, cooldownRef, accepted,
                                   display >>
  /\ UNCHANGED << isLearning, learningProgress, jitterZone, learningSamplesRef,
                  learningStartRef >>

(* ==========================  OBSERVERS  ========================== *)
RuleIndex(name) == CHOOSE i \in 1..Len(RuleNames) : RuleNames[i] = name

\* the rule's predicate on this frame's sample against the base then held
Matches(name, beta, gamma, base) ==
  /\ ~IsNull(base)
  /\ RULES(name, [ beta |-> beta, gamma |-> gamma ], Val(base), thresholds)

RunAfter(beta, gamma) ==
  [ K \in RuleSet |->
      IF Matches(K, beta, gamma, baseRef') THEN Min(run[K] + 1, FRAMES_NEEDED[K]) ELSE 0 ]

\* A fresh run of K starts on a frame processed with K enabled, K's counter at 0,
\* a base set and no cooldown pending; it goes on while K's predicate matches on
\* frames that reach the detection stage, accept no pattern and on which no
\* earlier rule reaches its count.
StreakAfter(beta, gamma, t) ==
  [ K \in RuleSet |->
      LET ok == /\ last'.branch \in { "rules", "cooldown" }
                /\ Matches(K, beta, gamma, baseRef')
                /\ ~(last'.winner # "" /\ RuleIndex(last'.winner) < RuleIndex(K))
          fresh == /\ isEnabled(K, thresholds)
                   /\ cntRef[K] = 0
                   /\ ~IsNull(baseRef)
                   /\ ~InCooldown(t, cooldownRef)
      IN IF ~ok THEN 0
         ELSE IF streak[K] >= 1 /\ streak[K] < FRAMES_NEEDED[K] THEN streak[K] + 1
         ELSE IF fresh THEN 1
         ELSE 0 ]

SegAfter(beta, gamma, learning) ==
  LET outcome == [ kind |-> last'.fired, confidence |-> last'.confidence ]
  IN IF learning THEN NoSeg
     ELSE IF seg.n > 0 /\ seg.beta = beta /\ seg.gamma = gamma
     THEN [ seg EXCEPT !.n = Min(@ + 1, 5),
                       !.fired = IF Len(@) < 4 THEN Append(@, outcome) ELSE @ ]
     ELSE [ beta |-> beta, gamma |-> gamma, n |-> 1,
            afterRest |-> seg.n > 0 /\ seg.beta = 0 /\ seg.gamma = 0,
            fired |-> << outcome >> ]

SwingAfter(beta, gamma, t) ==
  LET axis == IF beta = 0 /\ gamma \in { -30, 30 } THEN "gamma"
              ELSE IF gamma = 0 /\ beta \in { -30, 30 } THEN "beta"
              ELSE ""
      value == IF axis = "gamma" THEN gamma ELSE beta
      detecting == last'.branch \in { "pattern", "cooldown", "rules" }
      zz == IF last'.fired = "ZIGZAG" THEN 1 ELSE 0
      other == IF last'.fired \notin { "", "ZIGZAG" } THEN 1 ELSE 0
  IN IF ~detecting \/ axis = "" THEN NoSwing
     ELSE IF swing.n >= 1 /\ swing.n < 8 /\ swing.axis = axis /\ value = -swing.value
     THEN [ swing EXCEPT !.value = value, !.n = @ + 1,
                         !.zigzags = IF zz = 1 THEN Append(@, swing.n + 1) ELSE @,
                         !.others = @ + other ]
     ELSE IF patternHistoryRef = <<>> /\ t > cooldownRef
     THEN [ axis |-> axis, value |-> value, n |-> 1, since |-> t,
            zigzags |-> IF zz = 1 THEN << 1 >> ELSE <<>>, others |-> other ]
     ELSE NoSwing

\* one processed deviceorientation callback (registered while isActive && permission)
OnOrient(e, dt) ==
  /\ mounted
  /\ isActive
  /\ permission
  /\ now + dt <= env.until
  /\ now' = now + dt
  /\ LET beta == Nullish(e.beta)
         gamma == Nullish(e.gamma)
         t == now + dt
     IN /\ IF isLearning THEN LearningPhase(beta, gamma, t)
           ELSE IF ~isOutsideJitterZone(jitterZone, beta, gamma) THEN InsideJitter
           ELSE Detection(beta, gamma, t)
        /\ run' = RunAfter(beta, gamma)
        /\ streak' = StreakAfter(beta, gamma, t)
        /\ seg' = SegAfter(beta, gamma, isLearning)
        /\ swing' = SwingAfter(beta, gamma, t)
  /\ UNCHANGED << env, storage, mounted, thresholds, permission, isActive, zoneAtStart,
                  page, motion >>

Sense ==
  \E e \in (IF isLearning THEN env.still ELSE env.moves),
     dt \in (IF isLearning THEN env.learn ELSE env.dts) : OnOrient(e, dt)

Next == Mount \/ Ask \/ Toggle \/ Recalibrate \/ Sense

\* the callback of setTimeout(() => setCurrentGesture(null), 1000): it runs once, no
\* earlier than its delay; a frame due at the same time may be delivered first
GestureCleared ==
  /\ gestureTimers # << >>
  /\ now >= Head(gestureTimers)
  /\ currentGesture' = Null
  /\ gestureTimers' = Tail(gestureTimers)
  /\ UNCHANGED << now, env, storage, component, refs, observers, page, motion, smoothing >>

NextDisplay == Next \/ GestureCleared

(* ==========================  ENVIRONMENTS  ========================== *)
At(b, g) == [ beta |-> Some(b), gamma |-> Some(g) ]
\* an event without readings (beta and gamma null)
NoReading == [ beta |-> Null, gamma |-> Null ]

Absent == Null
Unparseable == Some([ parses |-> FALSE, obj |-> <<>> ])
Saved(obj) == Some([ parses |-> TRUE, obj |-> obj ])

\* sliders of the calibration page: FOUL_BETA_MIN at its minimum
EasyFoul == Saved([ FOUL_BETA_MIN |-> 10 ])

\* every rule and every pattern but ZIGZAG switched off
ZigzagOnly ==
  Saved([ PASS_ENABLED |-> FALSE, SHOT_ENABLED |-> FALSE, TACKLE_ENABLED |-> FALSE,
          VOICE_TAG_ENABLED |-> FALSE, FOUL_ENABLED |-> FALSE, CORNER_ENABLED |-> FALSE,
          OFFSIDE_ENABLED |-> FALSE, SUBSTITUTION_ENABLED |-> FALSE,
          CIRCULAR_ENABLED |-> FALSE, FIGURE_8_ENABLED |-> FALSE, SHAKE_ENABLED |-> FALSE ])

(* ==========================  CALIBRATION PAGE  ========================== *)
\* JSON.stringify(thresholds) as localStorage keeps it: every field is a finite
\* number or a boolean, so the text parses back to an object with the same fields
SaveDefaults(t) == Saved(DEFAULT_THRESHOLDS)

Stringify(t) == Saved(t)

\* the controls operated here: one checkbox and two sliders (disabled while their
\* gesture is switched off), with the slider positions tried
Controls ==
  << [ key |-> "PASS_ENABLED", value |-> ~calibration.thresholds.PASS_ENABLED, needs |-> "" ],
     [ key |-> "PASS_MIN", value |-> 20, needs |-> "PASS_ENABLED" ],
     [ key |-> "FOUL_BETA_MIN", value |-> 10, needs |-> "FOUL_ENABLED" ] >>

\* the page is opened: first render and its load effect
CalMount ==
  /\ ~calibration.open
  /\ calibration' = [ open |-> TRUE, thresholds |-> LoadedThresholds(storage) ]
  /\ surface' = [ surface EXCEPT !.op = "load", !.by = "calibration",
                                  !.loaded = Some(LoadedThresholds(storage)) ]
  /\ UNCHANGED << now, env, storage, component, refs, observers, smoothing, display, motion >>

\* onCheckedChange / onValueChange: setThresholds({ ...thresholds, KEY: value })
CalEdit ==
  /\ calibration.open
  /\ \E i \in 1..Len(Controls) :
       LET c == Controls[i]
       IN
       /\ c.needs # "" => calibration.thresholds[c.needs]
       /\ calibration.thresholds[c.key] # c.value
       /\ calibration' = [ calibration EXCEPT
                             !.thresholds = Merge(@, [ k \in { c.key } |-> c.value ]) ]
  /\ surface' = [ surface EXCEPT !.op = "edit" ]
  /\ UNCHANGED << now, env, storage, component, refs, observers, smoothing, display, motion >>

saveThresholds ==
  /\ calibration.open
  /\ storage' = Stringify(calibration.thresholds)
  /\ surface' = [ surface EXCEPT !.op = "save", !.saved = Some(calibration.thresholds),
                                  !.removed = FALSE ]
  /\ UNCHANGED << now, env, calibration, component, refs, observers, smoothing, display, motion >>

resetThresholds ==
  /\ calibration.open
  /\ calibration' = [ calibration EXCEPT !.thresholds = DEFAULT_THRESHOLDS ]
  /\ storage' = Absent
  /\ surface' = [ surface EXCEPT !.op = "reset", !.saved = Null, !.removed = TRUE ]
  /\ UNCHANGED << now, env, component, refs, observers, smoothing, display, motion >>

\* the page is left: its state is dropped
CalUnmount ==
  /\ calibration.open
  /\ calibration' = Closed
  /\ surface' = [ surface EXCEPT !.op = "close" ]
  /\ UNCHANGED << now, env, storage, component, refs, observers, smoothing, display, motion >>

\* the calibration page and the recorder's load of what it stored
NextCal == CalMount \/ CalEdit \/ saveThresholds \/ resetThresholds \/ CalUnmount \/ Mount

(* ==========================  KALMAN SMOOTH  ========================== *)
\* k.x.update(beta), k.y.update(gamma), k.z.update(0), with the same reading
\* delivered on every call
KalmanSmooth ==
  /\ fed.n < MaxUpdates
  /\ \E beta, gamma \in (-MaxAngle)..MaxAngle :
       /\ fed.n > 0 => beta = fed.beta /\ gamma = fed.gamma
       /\ kalRef' = [ x |-> update(kalRef.x, Whole(beta)),
                      y |-> update(kalRef.y, Whole(gamma)),
                      z |-> update(kalRef.z, Whole(0)) ]
       /\ fed' = [ beta |-> beta, gamma |-> gamma, n |-> fed.n + 1, before |-> kalRef ]
  /\ UNCHANGED << now, env, storage, component, refs, observers, page, motion, display >>

NextKalman == KalmanSmooth

(* ==========================  FIGURE EIGHT  ========================== *)
\* detectFigure8 on a window that grows by one point per call, FrameMs apart: the
\* hand stays where it is, or moves from beta 0 to beta 30 about the 12th point
Figure8 ==
  /\ Len(patternHistoryRef) < MaxWindow
  /\ \E beta \in { 0, 30 } :
       LET n == Len(patternHistoryRef)
           t == StartTime + FrameMs * n
           velocity == IF n = 0 THEN ZeroVelocity
                       ELSE VelocityFrom(patternHistoryRef[n], beta, 0, t)
           points == Append(patternHistoryRef,
                            [ beta |-> beta, gamma |-> 0, ts |-> t, velocity |-> velocity ])
       IN /\ n > 0 => \/ beta = patternHistoryRef[n].beta
                       \/ /\ beta > patternHistoryRef[n].beta
                          /\ n \in { CIRCULAR_MIN_POINTS - 1, CIRCULAR_MIN_POINTS }
          /\ patternHistoryRef' = points
          /\ \E figure8 \in detectFigure8(points) :
               last' = [ Idle EXCEPT !.branch = "figure8", !.samples = Len(points),
                                     !.best = [ name |-> "FIGURE_8", detected |-> figure8.detected,
                                                confidence |-> figure8.confidence,
                                                enabled |-> TRUE ] ]
  /\ UNCHANGED << now, env, storage, component, baseRef, cntRef, lastGestureRef, cooldownRef,
                  learningSamplesRef, learningStartRef, accepted, zoneAtStart, run, streak,
                  seg, swing, page, motion, smoothing, display >>

NextFigure8 == Figure8

(* ==========================  MOTION PROCESSOR HOOK  ========================== *)
\* a / b rounded toward zero
Quot(a, b) == IF a >= 0 THEN a \div b ELSE -((-a) \div b)

\* requestPermission(): granted (or no request needed) sets permission and isActive
requestPermission ==
  /\ \E granted \in BOOLEAN :
       hook' = IF granted THEN [ hook EXCEPT !.permission = TRUE, !.isActive = TRUE ] ELSE hook
  /\ UNCHANGED << now, env, storage, component, refs, observers, page, smoothing, display,
                  emitted, tick >>

\* toggle: () => setIsActive(!isActive)
toggle ==
  /\ hook' = [ hook EXCEPT !.isActive = ~hook.isActive ]
  /\ UNCHANGED << now, env, storage, component, refs, observers, page, smoothing, display,
                  emitted, tick >>

\* velocity * (1 - SMOOTHING_FACTOR) + instVel * SMOOTHING_FACTOR, instVel = change / dt
LowPass(v, change, ms) ==
  Quot(v * (100 - SMOOTHING_FACTOR) + Quot(change * 1000 * 1000, ms) * SMOOTHING_FACTOR, 100)

handleOrientation(e, dt) ==
  LET t == now + dt
      ms == t - hook.sensor.lastTs
      rawBeta == Nullish(e.beta)
      rawGamma == Nullish(e.gamma)
      read == [ beta |-> rawBeta, gamma |-> rawGamma, lastTs |-> t ]
  IN /\ hook.isActive
     /\ hook.permission
     /\ tick.readings < MaxReadings
     /\ now' = t
     /\ IF ms <= 0 \/ ms > MAX_GAP_MS
        THEN hook' = [ hook EXCEPT !.sensor = read ]
        ELSE hook' = [ hook EXCEPT
                        !.velocity = [ beta |-> LowPass(hook.velocity.beta,
                                                         rawBeta - hook.sensor.beta, ms),
                                       gamma |-> LowPass(hook.velocity.gamma,
                                                          rawGamma - hook.sensor.gamma, ms) ],
                        !.sensor = read ]
     /\ tick' = [ tick EXCEPT !.readings = tick.readings + 1 ]
     /\ UNCHANGED << env, storage, component, refs, observers, page, smoothing, display,
                     emitted >>

\* if (now > cooldown.current)
CooldownReached(t, cooldownDeadline) == t >= cooldownDeadline

CooldownOver(t, cooldownDeadline) == t > cooldownDeadline

\* the if / else-if chain of the gesture detection engine
Detected(beta, vBeta, vGamma, devGamma) ==
  IF vBeta > IMPULSE_THRESHOLD * 1000
  THEN [ type |-> "PASS", conf |-> Min(Quot(Abs(vBeta), 200), 1000) ]
  ELSE IF vBeta < -(IMPULSE_THRESHOLD * 1000)
  THEN [ type |-> "SHOT", conf |-> Min(Quot(Abs(vBeta), 200), 1000) ]
  ELSE IF Abs(devGamma) > SUSTAIN_THRESHOLD * 1000
  THEN [ type |-> "TACKLE", conf |-> 900 ]
  ELSE IF beta > VOICE_THRESHOLD \/ beta < -VOICE_THRESHOLD
  THEN [ type |-> "VOICE_TAG", conf |-> 1000 ]
  ELSE IF Abs(vGamma) > FOUL_VELOCITY * 1000 /\ Abs(vBeta) > FOUL_VELOCITY * 1000
  THEN [ type |-> "FOUL", conf |-> 800 ]
  ELSE [ type |-> "", conf |-> 0 ]

\* if (detectedType !== 'VOICE_TAG'): soft reset of base and velocity
ResetAlways(type) == TRUE

SoftReset(type) == type # "VOICE_TAG"

\* one iteration of loop(); requestAnimationFrame runs the iterations apart in time
loop(dt) ==
  LET t == now + dt
      beta == hook.sensor.beta
      gamma == hook.sensor.gamma
      vBeta == hook.velocity.beta
      vGamma == hook.velocity.gamma
      devBeta == beta * 1000 - hook.base.beta
      devGamma == gamma * 1000 - hook.base.gamma
      totalVel == Abs(vBeta) + Abs(vGamma)
      isSteady == totalVel < STEADY_BELOW * 1000
      adapted == IF isSteady
                 THEN [ beta |-> hook.base.beta + Quot(devBeta * BASE_RECENTER_SPEED, 100),
                        gamma |-> hook.base.gamma + Quot(devGamma * BASE_RECENTER_SPEED, 100) ]
                 ELSE hook.base
      open == CooldownOver(t, hook.cooldown)
      found == Detected(beta, vBeta, vGamma, devGamma)
      fires == open /\ found.type # ""
      after == IF ~fires THEN [ hook EXCEPT !.base = adapted ]
               ELSE IF SoftReset(found.type)
               THEN [ hook EXCEPT !.cooldown = t + HOOK_COOLDOWN_MS,
                                  !.base = [ beta |-> beta * 1000, gamma |-> gamma * 1000 ],
                                  !.velocity = [ beta |-> 0, gamma |-> 0 ] ]
               ELSE [ hook EXCEPT !.cooldown = t + HOOK_COOLDOWN_MS, !.base = adapted ]
  IN /\ hook.isActive
     /\ t > tick.t
     /\ now' = t
     /\ hook' = after
     /\ emitted' = IF fires
                   THEN Append(emitted, [ type |-> found.type, conf |-> found.conf, ts |-> t,
                                          beta |-> beta, gamma |-> gamma,
                                          base |-> hook.base ])
                   ELSE emitted
     /\ tick' = [ readings |-> tick.readings, ran |-> TRUE, t |-> t, open |-> open,
                  beta |-> beta, gamma |-> gamma, devBeta |-> devBeta, devGamma |-> devGamma,
                  velocity |-> hook.velocity, isSteady |-> isSteady, adapted |-> adapted,
                  wanted |-> found.type,
                  type |-> IF fires THEN found.type ELSE "",
                  conf |-> IF fires THEN found.conf ELSE 0,
                  after |-> after ]
     /\ UNCHANGED << env, storage, component, refs, observers, page, smoothing, display >>

Feel == \E e \in env.moves, dt \in env.dts : handleOrientation(e, dt)

Frame == \E dt \in env.frames : loop(dt)

NextHook == requestPermission \/ toggle \/ Feel \/ Frame

(* ==========================  RUNS  ========================== *)
\* a hand held at (0,0) that tilts sideways and back
Tilt ==
  [ still |-> { At(0, 0), NoReading }, learn |-> { 350, 700 },
    moves |-> { At(0, 0), NoReading, At(20, 60), At(30, 60) }, dts |-> { 350 },
    clicks |-> { 0 }, until |-> TiltUntil ]

\* a hand held at (0,0) that flicks forward to 40 degrees
Flick ==
  [ still |-> { At(0, 0), NoReading }, learn |-> { 350, 700 },
    moves |-> { At(0, 0), NoReading, At(40, 0) }, dts |-> { 350, 700 },
    clicks |-> { 0 }, until |-> FlickUntil ]

\* a tilted hand that trembles, sampled every 175 ms
Rapid ==
  [ still |-> { At(0, 0) }, learn |-> { 350 },
    moves |-> { At(10, 0), At(30, 60), At(30, 70) }, dts |-> { 175 },
    clicks |-> { 0 }, until |-> RapidUntil ]

\* a hand that swings between -30 and +30 on one axis, sampled every 250 ms
WiggleGamma ==
  [ still |-> { At(0, 0) }, learn |-> { 250, 750 },
    moves |-> { At(0, -30), At(0, 30) }, dts |-> { 250 },
    clicks |-> { 0 }, until |-> WiggleUntil ]

WiggleBeta ==
  [ still |-> { At(0, 0) }, learn |-> { 250, 750 },
    moves |-> { At(-30, 0), At(30, 0) }, dts |-> { 250 },
    clicks |-> { 0 }, until |-> WiggleUntil ]

\* a hand held at (0,0) that turns the phone face down and back
Invert ==
  [ still |-> { At(0, 0) }, learn |-> { 350 },
    moves |-> { At(0, 0), At(120, 0) }, dts |-> { 350 },
    clicks |-> { 0 }, until |-> InvertUntil ]

\* a hand that sways while the zone is learned, then one reading near the zone
Sway ==
  [ still |-> { At(0, 0), At(8, -4), At(-8, 4) }, learn |-> { 350 },
    moves |-> { At(0, 0), At(7, 0), At(0, 7) }, dts |-> { 350 },
    clicks |-> { 0 }, until |-> SwayUntil ]

\* a hand that learns at rest, then is held at one pose away from it
Hold ==
  [ still |-> { At(0, 0) }, learn |-> { 350, 700 },
    moves |-> { At(0, 0), At(30, 0) }, dts |-> { 350 },
    clicks |-> { 0 }, until |-> HoldUntil ]

\* frames that may be handled within the same millisecond as the one before
Burst ==
  [ still |-> { At(0, 0) }, learn |-> { 350, 700 },
    moves |-> { At(30, 0) }, dts |-> { 0, 350 },
    clicks |-> { 0 }, until |-> BurstUntil ]

\* a hand at rest that tilts sideways or turns the phone over, slowly or in a flick,
\* with a loop iteration possible right after each reading
Grip ==
  [ moves |-> { At(0, 0), At(0, 40), At(130, 0) }, dts |-> { 100, 400 }, frames |-> { 0 } ]

Init == InitWith({ Tilt }, { EasyFoul })
Spec == Init /\ [][Next]_vars

InitFlick == InitWith({ Flick }, { Absent })
SpecFlick == InitFlick /\ [][Next]_vars

InitRapid == InitWith({ Rapid }, { EasyFoul })
SpecRapid == InitRapid /\ [][Next]_vars

InitWiggle == InitWith({ WiggleGamma, WiggleBeta }, { ZigzagOnly })
SpecWiggle == InitWiggle /\ [][Next]_vars

InitInvert == InitWith({ Invert }, { Absent })
SpecInvert == InitInvert /\ [][Next]_vars

\* stored thresholds met on entry: none, damaged text, objects holding some fields
Stores == { Absent, Unparseable, EasyFoul, ZigzagOnly }

InitSway == InitWith({ Sway }, { Absent })
SpecSway == InitSway /\ [][Next]_vars

InitDisplay == InitWith({ Hold }, { Absent })
SpecDisplay == InitDisplay /\ [][NextDisplay]_vars

InitBurst == InitWith({ Burst }, { Absent })
SpecBurst == InitBurst /\ [][Next]_vars

InitFigure8 == InitWith({ Flick }, { Absent })
SpecFigure8 == InitFigure8 /\ [][NextFigure8]_vars

InitHook == InitWith({ Grip }, { Absent })
SpecHook == InitHook /\ [][NextHook]_vars

InitKalman == InitWith({ Flick }, { Absent })
SpecKalman == InitKalman /\ [][NextKalman]_vars

InitCal == InitWith({ Flick }, Stores)
SpecCal == InitCal /\ [][NextCal]_vars

(* ==========================  PROPERTIES  ========================== *)
Kinds(outcomes) == [ i \in 1..Len(outcomes) |-> outcomes[i].kind ]

\* C1 (cooldown exclusivity): after a gesture or pattern is accepted at T, the next
\* acceptance of any kind is on a frame whose timestamp is at least T + COOLDOWN_MS,
\* whatever hold counters and pattern confidences have reached meanwhile.
C1_CooldownExclusivity ==
  \A i \in 1..(Len(accepted) - 1) : accepted[i + 1].ts >= accepted[i].ts + COOLDOWN_MS

\* a frame inside the cooldown on which a rule other than the last gesture has its
\* count, and nothing is accepted
C1_Witness ==
  /\ accepted # <<>>
  /\ last.branch = "cooldown"
  /\ last.t < cooldownRef
  /\ last.reach # ""
  /\ last.reach # lastGestureRef
  /\ last.fired = ""

\* C2 (hysteresis, no early firing): a rule K is accepted on a frame only if K's
\* predicate matched on that frame and on each of the FRAMES_NEEDED[K] - 1 processed
\* frames immediately before it.
C2_NoEarlyFiring ==
  last.source = "GESTURE" => run[last.fired] >= FRAMES_NEEDED[last.fired]

\* C3 (hysteresis, firing on the N-th frame): when K's predicate has matched on
\* N = FRAMES_NEEDED[K] frames in a row outside the jitter zone, begun with K enabled,
\* K's counter at 0, a base set and no cooldown pending, with no pattern accepted and
\* no earlier rule reaching its count on them, K fires on the N-th of these frames.
C3_FiresOnNth ==
  \A K \in RuleSet :
    streak[K] = FRAMES_NEEDED[K] => last.fired = K /\ last.source = "GESTURE"

\* C4 (end-to-end PASS): with a zone learned at (0,0) of radius 5 on both axes, PASS
\* enabled with PASS_MIN = 40 and PASS_MAX = 85, four frames in a row at (40, 0)
\* after rest at (0,0) give one PASS event, on the 3rd frame, with confidence in
\* [0.9, 0.95], and no event on the other frames.
C4_PassScenario ==
  ( /\ seg.n = 4 /\ seg.beta = 40 /\ seg.gamma = 0 /\ seg.afterRest
    /\ ~IsNull(jitterZone)
    /\ jitterZone = Some([ n |-> Val(jitterZone).n, sumBeta |-> 0, sumGamma |-> 0,
                           devBeta |-> 0, devGamma |-> 0 ])
    /\ thresholds.PASS_ENABLED /\ thresholds.PASS_MIN = 40 /\ thresholds.PASS_MAX = 85 )
  => /\ Kinds(seg.fired) = << "", "", "PASS", "" >>
     /\ seg.fired[3].confidence >= 270
     /\ seg.fired[3].confidence <= 285

OnlyZigzag ==
  /\ \A K \in RuleSet : ~thresholds[EnabledKey(K)]
  /\ \A P \in PatternSet : thresholds[EnabledKey(P)] <=> P = "ZIGZAG"

\* C5 (end-to-end ZIGZAG, about gamma): with every rule disabled and only ZIGZAG
\* enabled, 8 frames within 2 seconds whose gamma alternates between -30 and +30
\* with beta at rest, begun on an empty pattern history with the cooldown deadline
\* passed, give exactly one ZIGZAG event, on the 8th frame, and no other event.
C5_GammaZigzag ==
  ( /\ OnlyZigzag
    /\ swing.axis = "gamma" /\ swing.n = 8
    /\ last.t - swing.since < PATTERN_WINDOW_MS )
  => /\ swing.zigzags = << 8 >>
     /\ swing.others = 0
     /\ last.confidence = Min(60 * 6, CONFIDENCE_CAP)

C5_Witness ==
  /\ OnlyZigzag
  /\ swing.axis = "gamma" /\ swing.n = 8
  /\ last.t - swing.since < PATTERN_WINDOW_MS
  /\ last.fired = "ZIGZAG"
  /\ events # <<>>
  /\ events[1].type = "ZIGZAG"

\* C5 as the specification words it: the same 8 frames with beta alternating between
\* -30 and +30 and gamma at rest give exactly one ZIGZAG event and no other event.
C5_BetaZigzag ==
  ( /\ OnlyZigzag
    /\ swing.axis = "beta" /\ swing.n = 8
    /\ last.t - swing.since < PATTERN_WINDOW_MS )
  => /\ Len(swing.zigzags) = 1
     /\ swing.others = 0

\* C6 (same-kind re-fire): between two acceptances of the same gesture kind, either
\* the cooldown started by the first has expired or a different gesture kind was
\* accepted.
C6_SameKindRefire ==
  \A i, j \in 1..Len(accepted) :
    ( /\ i < j
      /\ accepted[i].source = "GESTURE" /\ accepted[j].source = "GESTURE"
      /\ accepted[i].kind = accepted[j].kind )
    => \/ accepted[j].ts >= accepted[i].ts + COOLDOWN_MS
       \/ \E k \in (i + 1)..(j - 1) :
            accepted[k].source = "GESTURE" /\ accepted[k].kind # accepted[i].kind

\* the same kind accepted twice, a different kind in between
C6_Witness ==
  \E i, j \in 1..Len(accepted) :
    /\ i < j
    /\ accepted[i].source = "GESTURE" /\ accepted[j].source = "GESTURE"
    /\ accepted[i].kind = accepted[j].kind
    /\ \E k \in (i + 1)..(j - 1) :
         accepted[k].source = "GESTURE" /\ accepted[k].kind # accepted[i].kind

\* C7 (pattern-window eviction): when the matchers run on a frame at time t, every
\* point p they are given has t - p.ts < PATTERN_WINDOW_MS, the frame's own point is
\* the last of them, and the stored history is that window (or empty, once a pattern
\* was accepted on it).
C7_WindowEviction ==
  last.ran =>
    /\ \A i \in 1..Len(last.window) : last.t - last.window[i].ts < PATTERN_WINDOW_MS
    /\ last.window # <<>>
    /\ last.window[Len(last.window)].ts = last.t
    /\ last.window[Len(last.window)].beta = seg.beta
    /\ last.window[Len(last.window)].gamma = seg.gamma
    /\ patternHistoryRef = IF last.branch = "pattern" THEN <<>> ELSE last.window

\* the matchers ran on a window from which a point of age 2000 ms or more was removed
C7_Witness ==
  /\ last.ran
  /\ last.evicted > 0
  /\ Len(last.window) >= PATTERN_MIN_SAMPLES

\* C8 (pattern priority): on a frame where the best enabled pattern is detected with
\* confidence above 0.7 and a rule has its hold count, no gesture is accepted, and
\* unless the frame lies before the cooldown deadline the pattern is the event.
C8_PatternPriority ==
  ( /\ last.ran
    /\ last.best.detected
    /\ last.best.confidence > ACCEPT_CONFIDENCE
    /\ last.reach # "" )
  => /\ last.source # "GESTURE"
     /\ ~last.blocked => last.source = "PATTERN"

\* C9 (disabled means never match): every acceptance and every event is of a kind
\* whose _ENABLED flag is true in the thresholds the loop uses, and the best pattern
\* is never a disabled one.
C9_DisabledNeverMatch ==
  /\ \A i \in 1..Len(accepted) : thresholds[EnabledKey(accepted[i].kind)]
  /\ \A i \in 1..Len(events) : thresholds[EnabledKey(events[i].type)]
  /\ last.best.name # "" => thresholds[EnabledKey(last.best.name)]

\* a frame on which the disabled SHAKE is detected above 0.7 and the disabled PASS
\* has matched for its hold count, and nothing is accepted
C9_Witness ==
  /\ last.ran
  /\ last.branch = "rules"
  /\ last.fired = ""
  /\ ~thresholds.SHAKE_ENABLED
  /\ detectShake(last.window).confidence > ACCEPT_CONFIDENCE
  /\ ~thresholds.PASS_ENABLED
  /\ run["PASS"] >= FRAMES_NEEDED["PASS"]

AbortedLearning ==
  /\ last.branch = "learning"
  /\ ~isLearning
  /\ last.samples < MIN_LEARNING_SAMPLES

C11_RecalibrationReset ==
  last.then = "recalibrate" => IsNull(jitterZone) /\ cntRef = NoCounts

\* C12 (clean slate on deactivation): once the active flag is toggled off, and on
\* the first processed frame after it is toggled on again, every hold counter is 0
\* and the pattern history holds no point.
C12_CleanSlateOnDeactivation ==
  /\ last.then = "off" => cntRef = NoCounts /\ patternHistoryRef = <<>>
  /\ last.after = "reactivated" => cntRef = NoCounts /\ patternHistoryRef = <<>>

\* C13 (fail-open jitter gate): a processed non-learning frame is dropped by the
\* jitter gate exactly when a zone is learned and the frame lies within the
\* zone's radius on both axes; with no zone no frame is dropped, every one goes
\* on to the pattern window and the detection steps behind the gate.
FrameGated == last.branch \in { "jitter", "pattern", "cooldown", "rules" } /\ last.then = ""

WithinZone(zone, beta, gamma) ==
  /\ ~BeyondRadius(beta, zone.n, zone.sumBeta, zone.devBeta)
  /\ ~BeyondRadius(gamma, zone.n, zone.sumGamma, zone.devGamma)

C13_FailOpenGate ==
  FrameGated =>
    /\ IsNull(jitterZone) =>
         /\ last.branch # "jitter"
         /\ \/ last.branch = "pattern"
            \/ /\ patternHistoryRef # <<>>
               /\ patternHistoryRef[Len(patternHistoryRef)].ts = last.t
    /\ ~IsNull(jitterZone) =>
         (last.branch = "jitter" <=> WithinZone(Val(jitterZone), seg.beta, seg.gamma))

\* a frame at the rest pose passes the gate because no zone is learned
C13_Witness ==
  /\ FrameGated /\ IsNull(jitterZone)
  /\ seg.n > 0 /\ seg.beta = 0 /\ seg.gamma = 0
  /\ last.branch = "rules"

\* C14 (missing baseline): a frame that reaches the detection stage while no base
\* is set changes no hold counter and emits no event.
C14_MissingBaseline ==
  (last.branch \in { "pattern", "cooldown", "rules" } /\ ~last.hadBase)
    => cntRef = last.cntBefore /\ last.fired = ""

\* C15 (event delivery): every acceptance, by the rule engine (VOICE_TAG included)
\* or by the pattern detector, has added exactly one event of its kind on its
\* frame: the event list holds one event per acceptance, and the i-th acceptance
\* is the i-th event delivered (the list is kept newest first).
C15_EventDelivery ==
  /\ Len(events) = Len(accepted)
  /\ \A i \in 1..Len(accepted) :
       LET ev == events[Len(events) + 1 - i]
       IN ev.type = accepted[i].kind /\ ev.timestamp = accepted[i].ts

\* C16 (config load is total): whatever is stored under 'gesture-thresholds'
\* (nothing, text that does not parse, an object holding some of the fields), the
\* thresholds held right after a load, by the recorder or by the calibration page,
\* have every field of DEFAULT_THRESHOLDS: a stored field has the stored value,
\* every other field its default.
HeldAfterLoad == IF surface.by = "recorder" THEN thresholds ELSE calibration.thresholds

StoredObject == IF IsNull(storage) \/ ~Val(storage).parses THEN <<>> ELSE Val(storage).obj

C16_LoadIsTotal ==
  surface.op = "load" =>
    /\ HeldAfterLoad = Val(surface.loaded)
    /\ DOMAIN DEFAULT_THRESHOLDS \subseteq DOMAIN HeldAfterLoad
    /\ \A k \in DOMAIN DEFAULT_THRESHOLDS :
         HeldAfterLoad[k] = IF k \in DOMAIN StoredObject THEN StoredObject[k]
                            ELSE DEFAULT_THRESHOLDS[k]

\* the recorder loads an object that holds FOUL_BETA_MIN only
C16_Witness ==
  /\ surface.op = "load" /\ surface.by = "recorder"
  /\ DOMAIN StoredObject = { "FOUL_BETA_MIN" }
  /\ thresholds.FOUL_BETA_MIN = 10
  /\ thresholds.PASS_MIN = 40

\* C17 (config persistence law): on the calibration page, after any edits, saves
\* and resets, a reset leaves the page's thresholds equal to DEFAULT_THRESHOLDS and
\* no stored entry, so that the next load yields the defaults; and a load that
\* follows save(c) with no reset in between yields c merged over the defaults.
C17_PersistenceLaw ==
  /\ surface.op = "reset" =>
       /\ calibration.thresholds = DEFAULT_THRESHOLDS
       /\ storage = Absent
  /\ (surface.op = "load" /\ surface.removed) => HeldAfterLoad = DEFAULT_THRESHOLDS
  /\ (surface.op = "load" /\ ~IsNull(surface.saved)) =>
       HeldAfterLoad = Merge(DEFAULT_THRESHOLDS, Val(surface.saved))

\* the page is reopened after an edited config was saved
C17_Witness ==
  /\ surface.op = "load" /\ surface.by = "calibration"
  /\ ~IsNull(surface.saved)
  /\ Val(surface.saved).PASS_MIN = 20
  /\ calibration.thresholds.PASS_MIN = 20

\* C18 (jitter-zone correctness): a zone produced by finishLearning from its n >= 5
\* samples has, on each axis independently, its centre at the arithmetic mean of the
\* samples and its radius at max(1.5 x population standard deviation, 5): an angle
\* v is beyond the radius exactly when |v - mean| > 5 and |v - mean| > 1.5 sigma,
\* so the radius is never below 5 degrees. For the still samples (0,0), (1,-1),
\* (-1,1), (0.5,-0.5), (-0.5,0.5) the centre is (0,0) and both radii are the floor.
RECURSIVE SqDevOver(_, _, _, _)
\* sum of (n * s - S)^2 = n^2 * sum of squared deviations from the mean S / n
SqDevOver(s, f, n, S) ==
  IF s = <<>> THEN 0
  ELSE (n * s[1][f] - S) * (n * s[1][f] - S) + SqDevOver(Tail(s), f, n, S)

ZoneLearned == ~isLearning /\ ~IsNull(jitterZone)

\* the zone agrees with mean and deviation of the samples on one axis
AxisCorrect(samples, f, sum, dev) ==
  LET n == Len(samples)
      S == SumOver(samples, f)
      D == SqDevOver(samples, f, n, S)
  IN /\ sum = S
     /\ \A v \in (-ProbeLimit)..ProbeLimit :
          /\ BeyondRadius(v, n, sum, dev)
               <=> /\ Abs(n * v - S) > MIN_RADIUS * n
                   /\ 4 * n * (n * v - S) * (n * v - S) > 9 * D
          /\ Abs(n * v - S) <= MIN_RADIUS * n => ~BeyondRadius(v, n, sum, dev)

\* the still samples of the example, in half degrees
StillExample ==
  << [ beta |-> 0, gamma |-> 0 ], [ beta |-> 2, gamma |-> -2 ], [ beta |-> -2, gamma |-> 2 ],
     [ beta |-> 1, gamma |-> -1 ], [ beta |-> -1, gamma |-> 1 ] >>

\* centre (0,0), and 1.5 sigma within 5 degrees (10 half degrees) on both axes
ExampleAtFloor ==
  LET z == LearnedZone(StillExample)
      floor == 2 * MIN_RADIUS * z.n
  IN /\ z.sumBeta = 0 /\ z.sumGamma = 0
     /\ 9 * z.devBeta <= 4 * floor * floor
     /\ 9 * z.devGamma <= 4 * floor * floor

C18_ZoneCorrectness ==
  /\ ZoneLearned =>
       /\ Len(learningSamplesRef) >= MIN_LEARNING_SAMPLES
       /\ Val(jitterZone).n = Len(learningSamplesRef)
       /\ AxisCorrect(learningSamplesRef, "beta", Val(jitterZone).sumBeta,
                      Val(jitterZone).devBeta)
       /\ AxisCorrect(learningSamplesRef, "gamma", Val(jitterZone).sumGamma,
                      Val(jitterZone).devGamma)
  /\ ExampleAtFloor

\* a zone off the origin whose beta radius is 1.5 sigma and whose gamma radius is the floor
C18_Witness ==
  /\ ZoneLearned
  /\ Val(jitterZone).sumBeta # 0
  /\ 9 * Val(jitterZone).devBeta
       > 4 * (MIN_RADIUS * Val(jitterZone).n) * (MIN_RADIUS * Val(jitterZone).n)
  /\ Val(jitterZone).devGamma > 0
  /\ 9 * Val(jitterZone).devGamma
       <= 4 * (MIN_RADIUS * Val(jitterZone).n) * (MIN_RADIUS * Val(jitterZone).n)

\* C19 (filter stability): a Kalman1D filter starting at x = 0, p = 0 and fed the
\* same measurement m on successive updates moves its estimate toward m on every
\* update without passing it, and the covariance p it holds after an update is
\* never above the p it held after the update before.
TowardWithoutOvershoot(before, after, m) ==
  \/ Leq(before.x, after.x) /\ Leq(after.x, Whole(m))
  \/ Leq(Whole(m), after.x) /\ Leq(after.x, before.x)

C19_FilterStability ==
  /\ fed.n >= 1 =>
       /\ TowardWithoutOvershoot(fed.before.x, kalRef.x, fed.beta)
       /\ TowardWithoutOvershoot(fed.before.y, kalRef.y, fed.gamma)
       /\ TowardWithoutOvershoot(fed.before.z, kalRef.z, 0)
  /\ fed.n >= 2 =>
       /\ Leq(kalRef.x.p, fed.before.x.p)
       /\ Leq(kalRef.y.p, fed.before.y.p)
       /\ Leq(kalRef.z.p, fed.before.z.p)

\* C20 (base sample lifetime): whenever the rule engine runs, the base it uses was
\* captured after the latest learning phase was started (every activation and
\* every recalibration starts one, and no base is captured while it lasts).
C20_BaseLifetime ==
  (last.branch = "rules" /\ last.then = "") => Val(baseRef).ts > learningStartRef

\* C21 (pattern acceptance effects): on a frame on which a pattern is accepted the
\* stored pattern window becomes empty, the cooldown deadline becomes now + 700 ms,
\* exactly one event is added, a pattern event of the accepted kind carrying the
\* computed confidence, and the frame ends there: the rule engine is not run and
\* the Kalman filters, the base sample, every hold counter and the last-gesture
\* marker are left as they were.
PatternAcceptedNow ==
  /\ Len(accepted') = Len(accepted) + 1
  /\ accepted'[Len(accepted')].source = "PATTERN"

C21_PatternAcceptance ==
  [][ PatternAcceptedNow =>
        /\ patternHistoryRef' = << >>
        /\ cooldownRef' = now' + COOLDOWN_MS
        /\ Len(events') = Len(events) + 1
        /\ SubSeq(events', 2, Len(events')) = events
        /\ events'[1].type = accepted'[Len(accepted')].kind
        /\ events'[1].gestureType = "PATTERN"
        /\ events'[1].confidence = last'.best.confidence
        /\ events'[1].confidence > ACCEPT_CONFIDENCE
        /\ events'[1].timestamp = now'
        /\ last'.winner = "" /\ ~last'.smoothed
        /\ kalRef' = kalRef
        /\ baseRef' = baseRef
        /\ cntRef' = cntRef
        /\ lastGestureRef' = lastGestureRef ]_vars

\* SHAKE accepted on a frame that found a hold counter under way
C21_Witness ==
  /\ last.branch = "pattern" /\ last.fired = "SHAKE"
  /\ patternHistoryRef = << >>
  /\ cooldownRef = last.t + COOLDOWN_MS
  /\ cntRef # NoCounts
  /\ ~IsNull(baseRef)

\* C22 (tie-break): on an evaluated frame the rules are tried in the order PASS,
\* SHOT, TACKLE, VOICE_TAG, FOUL, CORNER, OFFSIDE, SUBSTITUTION; the winner is the
\* earliest rule that reaches its hold count on the frame (none if none does); the
\* rules before it have their counters stepped or reset, and the counters of all
\* rules after it are exactly what they were before the frame.
DeclaredOrder ==
  << "PASS", "SHOT", "TACKLE", "VOICE_TAG", "FOUL", "CORNER", "OFFSIDE", "SUBSTITUTION" >>

\* rule K matches on the last evaluated frame
MatchedOnFrame(K) ==
  isEnabled(K, thresholds) /\ RULES(K, Val(last.sample), Val(baseRef), thresholds)

WouldReach(K) == MatchedOnFrame(K) /\ last.cntBefore[K] + 1 >= FRAMES_NEEDED[K]

C22_TieBreak ==
  (last.branch = "rules" /\ last.then = "") =>
    LET reaching == { i \in 1..Len(DeclaredOrder) : WouldReach(DeclaredOrder[i]) }
        first == CHOOSE i \in reaching : \A j \in reaching : i <= j
        stop == IF reaching = {} THEN Len(DeclaredOrder) ELSE first
    IN /\ last.winner = IF reaching = {} THEN "" ELSE DeclaredOrder[first]
       /\ \A i \in 1..Len(DeclaredOrder) :
            LET K == DeclaredOrder[i]
            IN cntRef[K] = IF i > stop THEN last.cntBefore[K]
                           ELSE IF MatchedOnFrame(K) THEN last.cntBefore[K] + 1
                           ELSE 0

\* two rules reach their count on one frame; the later one keeps its counter
C22_Witness ==
  /\ last.branch = "rules" /\ last.then = ""
  /\ last.winner = "VOICE_TAG"
  /\ WouldReach("SUBSTITUTION")
  /\ cntRef.SUBSTITUTION = last.cntBefore.SUBSTITUTION
  /\ cntRef.SUBSTITUTION > 0

\* C23 (learning phase gating): while a learning phase is in progress a processed
\* frame only appends one (beta, gamma) sample and sets the progress, which stays
\* within [0, 1] (counted in 1/2000); nothing is accepted, and the pattern window,
\* the hold counters, the cooldown deadline and the base sample stay as they were;
\* the phase ends on that frame exactly when the frame comes at least 2000 ms after
\* the learning start.
LearningFrame == mounted /\ isActive /\ permission /\ isLearning /\ now' > now

C23_LearningGating ==
  [][ LearningFrame =>
        /\ Len(learningSamplesRef') = Len(learningSamplesRef) + 1
        /\ SubSeq(learningSamplesRef', 1, Len(learningSamplesRef)) = learningSamplesRef
        /\ \E e \in env.still :
             learningSamplesRef'[Len(learningSamplesRef')]
               = [ beta |-> Nullish(e.beta), gamma |-> Nullish(e.gamma) ]
        /\ learningProgress' \in 0..LEARNING_DURATION_MS
        /\ learningProgress' = IF now' - learningStartRef < LEARNING_DURATION_MS
                               THEN now' - learningStartRef
                               ELSE LEARNING_DURATION_MS
        /\ accepted' = accepted /\ events' = events /\ voice' = voice
        /\ patternHistoryRef' = patternHistoryRef
        /\ cntRef' = cntRef
        /\ cooldownRef' = cooldownRef
        /\ baseRef' = baseRef
        /\ lastGestureRef' = lastGestureRef
        /\ isLearning' <=> now' < learningStartRef + LEARNING_DURATION_MS ]_vars

\* a frame of a second learning phase, with a base and the pattern window of the
\* detection before it still held
C23_Witness ==
  /\ last.branch = "learning" /\ last.then = ""
  /\ isLearning
  /\ learningProgress > 0 /\ learningProgress < LEARNING_DURATION_MS
  /\ ~IsNull(baseRef)
  /\ patternHistoryRef # << >>
  /\ cntRef # NoCounts

\* C24 (classifier input is the smoothed sample): on an evaluated frame the beta
\* and gamma that the rule predicates compare with the base are the outputs of
\* the x and y Kalman filters for that frame.
C24_SmoothedInput ==
  (last.branch = "rules" /\ Val(last.sample).x # Unfollowed) =>
    /\ Whole(Val(last.sample).beta) = Val(last.sample).x
    /\ Whole(Val(last.sample).gamma) = Val(last.sample).y

\* C25 (same kind stays blocked until another kind fires): between two acceptances
\* of the same instantaneous kind K there is an acceptance of a different
\* instantaneous kind; and a frame on which the rule loop's winner is the kind
\* last accepted accepts nothing and leaves the lockout as it was, whether or
\* not the cooldown has run out, the gesture badge has been cleared by its
\* timeout, or the loop has been switched off and on since.
Instantaneous(i) == accepted[i].source = "GESTURE"
C25_SameKindBlocked ==
  /\ \A i, j \in 1..Len(accepted) :
       (i < j /\ Instantaneous(i) /\ Instantaneous(j) /\ accepted[i].kind = accepted[j].kind)
         => \E m \in (i + 1)..(j - 1) :
              Instantaneous(m) /\ accepted[m].kind # accepted[i].kind
  /\ (last.branch = "rules" /\ last.winner # "" /\ last.fired = "")
       => /\ last.winner = lastGestureRef
          /\ \E i \in 1..Len(accepted) :
               /\ Instantaneous(i) /\ accepted[i].kind = last.winner
               /\ \A m \in (i + 1)..Len(accepted) : ~Instantaneous(m)

C25_Witness ==
  /\ last.branch = "rules" /\ last.winner = "SUBSTITUTION" /\ last.fired = ""
  /\ Len(accepted) = 1 /\ accepted[1].kind = "SUBSTITUTION"
  /\ last.t >= accepted[1].ts + GESTURE_SHOWN_MS
  /\ last.t >= cooldownRef
  /\ IsNull(currentGesture) /\ gestureTimers = << >>
  /\ learningStartRef > accepted[1].ts /\ IsNull(zoneAtStart) /\ IsNull(jitterZone)

\* C26 (velocity is well defined): every point kept in the pattern window has a
\* velocity computed over a positive elapsed time (the first point of a window
\* has the literal 0), so that it is a finite, non-negative number.
C26_VelocityDefined ==
  \A i \in 1..Len(patternHistoryRef) : patternHistoryRef[i].velocity.ms > 0

\* C27 (effective figure-eight minimum): detectFigure8 reports detected only for
\* windows of at least 24 points; a window of 16 to 23 points, which its own
\* length guard admits, is never detected, because its first half holds fewer
\* than the 12 points detectCircularMotion asks for.
C27_Figure8Minimum ==
  last.branch = "figure8" =>
    /\ last.best.detected => last.samples >= 2 * CIRCULAR_MIN_POINTS
    /\ (last.samples >= FIGURE8_MIN_POINTS /\ last.samples < 2 * CIRCULAR_MIN_POINTS)
         => /\ ~last.best.detected /\ last.best.confidence = 0
            /\ last.samples \div 2 < CIRCULAR_MIN_POINTS

C27_Witness ==
  /\ last.branch = "figure8" /\ last.samples = 2 * CIRCULAR_MIN_POINTS - 1
  /\ ~last.best.detected
  /\ HalvesApart(SubSeq(patternHistoryRef, 1, 11), SubSeq(patternHistoryRef, 12, 23))

\* C28 (useMotionProcessor cooldown): an iteration of the hook's loop emits at most
\* one event, the first of PASS, SHOT, TACKLE, VOICE_TAG, FOUL whose condition
\* holds, and only when its time is later than the cooldown deadline; after an
\* event emitted at time T no event of any type is emitted on an iteration whose
\* time is <= T + 800.
FirstOf(beta, vBeta, vGamma, devGamma) ==
  LET holds == [ PASS |-> vBeta > 150000, SHOT |-> vBeta < -150000,
                 TACKLE |-> devGamma > 35000 \/ devGamma < -35000,
                 VOICE_TAG |-> beta > 120 \/ beta < -120,
                 FOUL |-> (vGamma > 100000 \/ vGamma < -100000)
                          /\ (vBeta > 100000 \/ vBeta < -100000) ]
      order == << "PASS", "SHOT", "TACKLE", "VOICE_TAG", "FOUL" >>
      met == { i \in 1..5 : holds[order[i]] }
  IN IF met = {} THEN "" ELSE order[CHOOSE i \in met : \A j \in met : i <= j]

C28_HookCooldown ==
  /\ \A i, j \in 1..Len(emitted) :
       i < j => emitted[j].ts > emitted[i].ts + HOOK_COOLDOWN_MS
  /\ tick.ran =>
       /\ tick.type \in { "", FirstOf(tick.beta, tick.velocity.beta, tick.velocity.gamma,
                                      tick.devGamma) }
       /\ tick.type # "" =>
            /\ emitted # << >>
            /\ emitted[Len(emitted)].type = tick.type
            /\ emitted[Len(emitted)].ts = tick.t
            /\ tick.after.cooldown = tick.t + HOOK_COOLDOWN_MS
       /\ (emitted # << >> /\ tick.t > emitted[Len(emitted)].ts
           /\ tick.t <= emitted[Len(emitted)].ts + HOOK_COOLDOWN_MS) => tick.type = ""

C28_Witness ==
  /\ Len(emitted) = 1
  /\ tick.ran /\ tick.t = emitted[1].ts + HOOK_COOLDOWN_MS
  /\ tick.wanted = "TACKLE" /\ tick.type = ""
  /\ hook.cooldown = tick.t

\* C29 (soft reset prevents double-triggering): no event other than a flick is
\* emitted at the orientation the base had before a non-voice event, as the next
\* event after it.
C29_NoDoubleTrigger ==
  \A i \in 1..(Len(emitted) - 1) :
    ( /\ emitted[i].type # "VOICE_TAG"
      /\ emitted[i + 1].beta * 1000 = emitted[i].base.beta
      /\ emitted[i + 1].gamma * 1000 = emitted[i].base.gamma )
      => emitted[i + 1].type \in { "PASS", "SHOT" }

\* C30 (VOICE_TAG repeats): an iteration later than the cooldown deadline, with
\* |beta| > 120, no flick velocity and no sideways deviation, emits VOICE_TAG with
\* confidence 1.0, whatever was emitted before; the event sets the cooldown and
\* leaves the velocity and the (adapted) base as they were.
C30_VoiceRepeats ==
  tick.ran =>
    /\ ( /\ tick.open
         /\ tick.beta > 120 \/ tick.beta < -120
         /\ tick.velocity.beta <= 150000 /\ tick.velocity.beta >= -150000
         /\ tick.devGamma <= 35000 /\ tick.devGamma >= -35000 )
         => tick.type = "VOICE_TAG" /\ tick.conf = 1000
    /\ tick.type = "VOICE_TAG" =>
         /\ tick.after.velocity = tick.velocity
         /\ tick.after.base = tick.adapted
         /\ tick.after.sensor.beta = tick.beta
         /\ tick.after.cooldown = tick.t + HOOK_COOLDOWN_MS

C30_Witness ==
  /\ Len(emitted) = 2
  /\ emitted[1].type = "VOICE_TAG" /\ emitted[2].type = "VOICE_TAG"
  /\ emitted[1].beta = 130 /\ emitted[2].beta = 130
  /\ emitted[2].ts > emitted[1].ts + HOOK_COOLDOWN_MS
  /\ tick.t = emitted[2].ts
  /\ hook.base = tick.adapted /\ hook.base.beta # 130000

====
